---- MODULE Spec2Model ----
(***************************************************************************)
(* A model of the RedInk generation workflow: the generator store          *)
(* (frontend/src/stores/generator.ts), the outline editing view with its   *)
(* debounced autosave, and the content regeneration of the image gallery   *)
(* modal.                                                                  *)
(***************************************************************************)
EXTENDS Integers, Sequences, FiniteSets, TLC

(* ------------------------------ bounds -------------------------------- *)

\* The longest outline the model edits.
MaxPages == 3

\* The most pages the generation runs of the model render.
MaxImages == 2

\* The cap on progress.current, which the code never bounds.
MaxCurrent == 3

\* The clock values Date.now() and new Date() return.
MaxTime == 1

\* The most remote calls in flight, and the most suspended continuations of a
\* kind, at a time.
MaxInFlight == 2

\* The longest outline edited in the outline view of the model.
MaxViewPages == 2

\* How many times the outline view is mounted.
MaxMounts == 2

\* Index and position arguments range a little beyond both ends of the page
\* list, so negative and out-of-range arguments happen.
IndexArgs == (0 - 2)..(MaxPages + 1)

(* ------------------------- values of the program ---------------------- *)

\* JavaScript's null and undefined, kept as strings so that they compare with
\* the text fields they stand in for.
Null == "<null>"
Undefined == "<undefined>"

PageTypes == {"content", "cover", "summary"}

\* Page texts the model types in; the empty text is addPage's default.
Contents == {"", "A"}

\* The separator syncRawFromPages joins the page contents with.
PageSeparator == "\n\n<page>\n\n"

Min(a, b) == IF a < b THEN a ELSE b
Max(a, b) == IF a > b THEN a ELSE b

\* The store's state after construction with no saved snapshot.
DefaultState ==
  [ stage |-> "input",
    topic |-> "",
    outline |-> [raw |-> "", pages |-> << >>],
    progress |-> [current |-> 0, total |-> 0, status |-> "idle"],
    images |-> << >>,
    taskId |-> Null,
    recordId |-> Null,
    userImages |-> << >>,
    content |-> [status |-> "idle",
                 titles |-> << >>,
                 copywriting |-> "",
                 tags |-> << >>,
                 error |-> Undefined],
    outlineStatus |-> "idle",
    lastSavedAt |-> Null ]

VARIABLES
  store,           \* the generator store's state (GeneratorState)
  lastCall,        \* the store action or handler that ran last
  storage,         \* localStorage's slot under STORAGE_KEY: << >> when absent, << saved >> when set
  slot,            \* localStorage: "ok", "corrupt" (the text under the key is not JSON) or
                   \* "throws" (its operations throw)
  autoSaveOn,      \* setupAutoSave() has installed its watcher
  storagePending,  \* the setupAutoSave watcher's job is queued
  outlinePending,  \* the outline view's watcher job is queued
  mounted,         \* the outline view is mounted
  instance,        \* how many times the outline view has been mounted
  saveTimer,       \* the view's saveTimer: 0 for null, else the id of its timer
  timers,          \* the ids of the timeouts the browser still has to fire
  isSaving,        \* the mounted view's isSaving ref
  unsent,          \* an edit made in the view has not been sent in any save call
  debounced,       \* debouncedSave has run in the mounted view
  runsSinceEdit,   \* autoSaveOutline runs since debouncedSave last ran
  superseded,      \* debouncedSave has replaced a pending timer since the last run
  importing,       \* saveContentToHistory runs suspended at await import('../api')
  requests,        \* the remote calls in flight, oldest first
  record,          \* the gallery modal's props.record: << >> when null, else << record >>
  contentLoading,  \* the gallery modal's contentLoading ref
  contentError     \* the gallery modal's contentError ref

\* The outline view's own state.
viewVars ==
  << mounted, instance, saveTimer, timers, isSaving, unsent, debounced, runsSinceEdit,
     superseded >>

\* The gallery modal's own state.
modalVars == << record, contentLoading, contentError >>

vars == << store, lastCall, storage, slot, autoSaveOn, storagePending, outlinePending, viewVars,
           importing, requests, modalVars >>

\* What the store's synchronous actions never touch.
asyncVars == << importing, requests >>

\* found: the action's lookup by index located its page or image (TRUE for an
\* action that looks nothing up); threw: the action raised an exception;
\* changed: the action left the store in a state other than the one it found.
Call(op, found, threw, new) ==
  [op |-> op, found |-> found, threw |-> threw, changed |-> new # store]

\* No watcher job is queued: Vue flushes the jobs in a microtask, before the
\* next event handler, timer or response runs.
Idle == ~storagePending /\ ~outlinePending

\* The fields the setupAutoSave watcher reads (all but userImages).
Tracked(s) ==
  [ stage |-> s.stage, topic |-> s.topic, outline |-> s.outline,
    progress |-> s.progress, images |-> s.images, taskId |-> s.taskId,
    recordId |-> s.recordId, content |-> s.content,
    outlineStatus |-> s.outlineStatus, lastSavedAt |-> s.lastSavedAt ]

\* A store action's effect on the watchers: the setupAutoSave watcher is queued
\* when a field it reads changed or was assigned a fresh object, the view's
\* watcher when the page list changed or was replaced.
Notify(new, fresh, freshPages) ==
  /\ storagePending' = (autoSaveOn /\ (fresh \/ freshPages \/ Tracked(new) # Tracked(store)))
  /\ outlinePending' = (mounted /\ (freshPages \/ new.outline.pages # store.outline.pages))

(* --------------------------- the page list ---------------------------- *)

RECURSIVE JoinFrom(_, _)
JoinFrom(pages, k) ==
  IF k > Len(pages) THEN ""
  ELSE IF k = Len(pages) THEN pages[k].content
  ELSE pages[k].content \o PageSeparator \o JoinFrom(pages, k + 1)

\* pages.map(page => page.content).join('\n\n<page>\n\n')
JoinContents(pages) == JoinFrom(pages, 1)

\* Array.prototype.find(p => p.index === index): the position (1-based) of the
\* first page or image with that index, 0 when there is none.
FindIndex(seq, index) ==
  LET hits == {k \in 1..Len(seq) : seq[k].index = index}
  IN IF hits = {} THEN 0 ELSE CHOOSE k \in hits : \A h \in hits : k <= h

\* Reindex with the renumbering loop left out.
ReindexSkipped(pages) == pages

\* pages.forEach((page, idx) => { page.index = idx })
Reindex(pages) == [k \in 1..Len(pages) |-> [pages[k] EXCEPT !.index = k - 1]]

\* Array.prototype.splice's clamping of its start argument.
SpliceStart(start, len) == IF start < 0 THEN Max(len + start, 0) ELSE Min(start, len)

\* seq with x inserted so that it stands at 0-based position at.
InsertAt(seq, at, x) == SubSeq(seq, 1, at) \o << x >> \o SubSeq(seq, at + 1, Len(seq))

\* seq without the element at 0-based position at.
RemoveAt(seq, at) == SubSeq(seq, 1, at) \o SubSeq(seq, at + 2, Len(seq))

\* SyncRaw with the call of syncRawFromPages left out.
SyncRawSkipped(s) == s

\* syncRawFromPages on a state.
SyncRaw(s) == [s EXCEPT !.outline.raw = JoinContents(s.outline.pages)]

(* ------------------------ outline editing actions --------------------- *)

\* An outline as the outline generator returns it: n pages numbered 0..n-1, a
\* cover first, then content pages, each with text c.
GeneratedPages(n, c) ==
  [k \in 1..n |-> [content |-> c, index |-> k - 1, type |-> IF k = 1 THEN "cover" ELSE "content"]]

\* The raw texts setOutline is given: the joined contents, or the generator's
\* own text, which need not be the joined contents.
RawInputs(pages) == {JoinContents(pages), "raw"}

\* setOutline without the assignment of outlineStatus.
setOutline_NoStatus(raw, pages) ==
  LET new == [store EXCEPT !.outline.raw = raw, !.outline.pages = pages,
                           !.stage = "outline"]
  IN /\ Idle
     /\ store' = new
     /\ lastCall' = Call("setOutline", TRUE, FALSE, new)
     /\ Notify(new, FALSE, TRUE)
     /\ UNCHANGED << modalVars, storage, slot, autoSaveOn, viewVars, asyncVars >>

setOutline(raw, pages) ==
  LET new == [store EXCEPT !.outline.raw = raw, !.outline.pages = pages,
                           !.stage = "outline", !.outlineStatus = "done"]
  IN /\ Idle
     /\ store' = new
     /\ lastCall' = Call("setOutline", TRUE, FALSE, new)
     /\ Notify(new, FALSE, TRUE)
     /\ UNCHANGED << modalVars, storage, slot, autoSaveOn, viewVars, asyncVars >>

updatePageState(s, index, content) ==
  LET k == FindIndex(s.outline.pages, index)
  IN IF k = 0 THEN s ELSE SyncRaw([s EXCEPT !.outline.pages[k].content = content])

updatePage(index, content) ==
  LET k == FindIndex(store.outline.pages, index)
      new == updatePageState(store, index, content)
  IN /\ Idle
     /\ store' = new
     /\ lastCall' = Call("updatePage", k # 0, FALSE, new)
     /\ Notify(new, FALSE, FALSE)
     /\ UNCHANGED << modalVars, storage, slot, autoSaveOn, viewVars, asyncVars >>

\* The last page removed instead of the page with the index.
deletePageState_Last(s, index) ==
  LET pages == s.outline.pages
      kept == IF FindIndex(pages, index) = 0 THEN pages ELSE SubSeq(pages, 1, Len(pages) - 1)
  IN SyncRaw([s EXCEPT !.outline.pages = Reindex(kept)])

deletePageState(s, index) ==
  LET kept == SelectSeq(s.outline.pages, LAMBDA p : p.index # index)
  IN SyncRaw([s EXCEPT !.outline.pages = Reindex(kept)])

deletePage(index) ==
  LET new == deletePageState(store, index)
  IN /\ Idle
     /\ store' = new
     /\ lastCall' = Call("deletePage", FindIndex(store.outline.pages, index) # 0, FALSE, new)
     /\ Notify(new, FALSE, TRUE)
     /\ UNCHANGED << modalVars, storage, slot, autoSaveOn, viewVars, asyncVars >>

addPageState(s, type, content) ==
  LET newPage == [content |-> content, index |-> Len(s.outline.pages), type |-> type]
  IN SyncRaw([s EXCEPT !.outline.pages = Append(@, newPage)])

addPage(type, content) ==
  LET new == addPageState(store, type, content)
  IN /\ Idle
     /\ Len(store.outline.pages) < MaxPages
     /\ store' = new
     /\ lastCall' = Call("addPage", TRUE, FALSE, new)
     /\ Notify(new, FALSE, TRUE)
     /\ UNCHANGED << modalVars, storage, slot, autoSaveOn, viewVars, asyncVars >>

insertPage(afterIndex, type, content) ==
  LET pages == store.outline.pages
      newPage == [content |-> content, index |-> afterIndex + 1, type |-> type]
      at == SpliceStart(afterIndex + 1, Len(pages))
      new == SyncRaw([store EXCEPT !.outline.pages = Reindex(InsertAt(pages, at, newPage))])
  IN /\ Idle
     /\ Len(pages) < MaxPages
     /\ store' = new
     /\ lastCall' = Call("insertPage", TRUE, FALSE, new)
     /\ Notify(new, FALSE, TRUE)
     /\ UNCHANGED << modalVars, storage, slot, autoSaveOn, viewVars, asyncVars >>

\* The two positions exchanged instead of one page moved.
MovedRefs_Swap(n, fromIndex, toIndex) ==
  [k \in 1..n |->
     IF k = fromIndex + 1 /\ toIndex \in 0..(n - 1) THEN toIndex + 1
     ELSE IF k = toIndex + 1 /\ fromIndex \in 0..(n - 1) THEN fromIndex + 1
     ELSE k]

\* movePage's local array, as references into this.outline.pages (1-based
\* positions; 0 is the undefined that splice(fromIndex, 1) yields when it
\* removes nothing): [...pages], splice(fromIndex, 1), splice(toIndex, 0, moved).
MovedRefs(n, fromIndex, toIndex) ==
  LET a == SpliceStart(fromIndex, n)
      all == [k \in 1..n |-> k]
      rest == IF a < n THEN RemoveAt(all, a) ELSE all
      moved == IF a < n THEN a + 1 ELSE 0
  IN InsertAt(rest, SpliceStart(toIndex, Len(rest)), moved)

\* The position in refs of the first undefined element, 0 when there is none.
FirstUndefined(refs) ==
  LET holes == {k \in 1..Len(refs) : refs[k] = 0}
  IN IF holes = {} THEN 0 ELSE CHOOSE k \in holes : \A h \in holes : k <= h

\* movePage's new page list; when the local array holds undefined, forEach throws
\* a TypeError there: the pages before it have been renumbered in place (they
\* are the objects of this.outline.pages) and the list itself is not replaced.
MovedPages(pages, fromIndex, toIndex) ==
  LET refs == MovedRefs(Len(pages), fromIndex, toIndex)
      hole == FirstUndefined(refs)
  IN IF hole = 0
     THEN [k \in 1..Len(refs) |-> [pages[refs[k]] EXCEPT !.index = k - 1]]
     ELSE [p \in 1..Len(pages) |->
            IF \E k \in 1..(hole - 1) : refs[k] = p
            THEN [pages[p] EXCEPT !.index = (CHOOSE k \in 1..(hole - 1) : refs[k] = p) - 1]
            ELSE pages[p]]

\* movePage throws (a TypeError in its forEach) when nothing was removed.
movePageThrows(s, fromIndex, toIndex) ==
  FirstUndefined(MovedRefs(Len(s.outline.pages), fromIndex, toIndex)) # 0

movePageState(s, fromIndex, toIndex) ==
  LET moved == [s EXCEPT !.outline.pages = MovedPages(s.outline.pages, fromIndex, toIndex)]
  IN IF movePageThrows(s, fromIndex, toIndex) THEN moved ELSE SyncRaw(moved)

movePage(fromIndex, toIndex) ==
  LET threw == movePageThrows(store, fromIndex, toIndex)
      new == movePageState(store, fromIndex, toIndex)
  IN /\ Idle
     /\ store' = new
     /\ lastCall' = Call("movePage", TRUE, threw, new)
     /\ Notify(new, FALSE, ~threw)
     /\ UNCHANGED << modalVars, storage, slot, autoSaveOn, viewVars, asyncVars >>

(* ------------------------- generation actions ------------------------- *)

\* JavaScript's truthiness of an optional text argument.
Truthy(text) == text # Undefined /\ text # ""

\* `${newUrl}?t=${timestamp}`
CacheBusted(newUrl, timestamp) == newUrl \o "?t=" \o ToString(timestamp)

\* new Date().toISOString()
ISOString(time) == "T" \o ToString(time)

\* A GeneratedImage as startGeneration creates it; error and progress are
\* optional fields (progress is << >> when absent, << n >> when set).
NewImage(page) ==
  [progress |-> << >>,
   status |-> "generating",
   error |-> Undefined,
   index |-> page.index,
   url |-> ""]

\* startGeneration without the reset of progress.current.
startGenerationState_KeepCurrent(s) ==
  [s EXCEPT !.stage = "generating",
            !.progress.total = Len(s.outline.pages),
            !.progress.status = "generating",
            !.images = [k \in 1..Len(s.outline.pages) |-> NewImage(s.outline.pages[k])]]

startGenerationState(s) ==
  [s EXCEPT !.stage = "generating",
            !.progress.current = 0,
            !.progress.total = Len(s.outline.pages),
            !.progress.status = "generating",
            !.images = [k \in 1..Len(s.outline.pages) |-> NewImage(s.outline.pages[k])]]

startGeneration ==
  LET new == startGenerationState(store)
  IN /\ Idle
     /\ store' = new
     /\ lastCall' = Call("startGeneration", TRUE, FALSE, new)
     /\ Notify(new, TRUE, FALSE)
     /\ UNCHANGED << modalVars, storage, slot, autoSaveOn, viewVars, asyncVars >>

\* updateProgress(index, status, url, error) applied to state s.
updateProgressState(s, index, status, url, error) ==
  LET k == FindIndex(s.images, index)
      img == IF k = 0 THEN s
             ELSE [s EXCEPT !.images[k].status = status,
                            !.images[k].url = IF Truthy(url) THEN url ELSE @,
                            !.images[k].error = IF Truthy(error) THEN error ELSE @]
  IN IF status = "done" THEN [img EXCEPT !.progress.current = @ + 1] ELSE img

updateProgress(index, status, url, error) ==
  LET k == FindIndex(store.images, index)
      new == updateProgressState(store, index, status, url, error)
  IN /\ Idle
     /\ status = "done" => store.progress.current < MaxCurrent
     /\ store' = new
     /\ lastCall' = Call("updateProgress", k # 0, FALSE, new)
     /\ Notify(new, FALSE, FALSE)
     /\ UNCHANGED << modalVars, storage, slot, autoSaveOn, viewVars, asyncVars >>

\* updateImageProgress(index, progress) applied to state s.
updateImageProgressState(s, index, progress) ==
  LET k == FindIndex(s.images, index)
  IN IF k = 0 THEN s ELSE [s EXCEPT !.images[k].progress = << progress >>]

updateImageProgress(index, progress) ==
  LET k == FindIndex(store.images, index)
      new == updateImageProgressState(store, index, progress)
  IN /\ Idle
     /\ store' = new
     /\ lastCall' = Call("updateImageProgress", k # 0, FALSE, new)
     /\ Notify(new, FALSE, FALSE)
     /\ UNCHANGED << modalVars, storage, slot, autoSaveOn, viewVars, asyncVars >>

\* updateImage with the image taken at position index of the list, not
\* looked up by its index field.
updateImageState_ByPosition(s, index, newUrl, timestamp) ==
  LET k == IF index + 1 \in 1..Len(s.images) THEN index + 1 ELSE 0
  IN IF k = 0 THEN s
     ELSE [s EXCEPT !.images[k].url = CacheBusted(newUrl, timestamp),
                    !.images[k].status = "done",
                    !.images[k].error = Undefined]

\* updateImage(index, newUrl) applied to state s; timestamp is what
\* Date.now() reads. delete image.error leaves the image without an error.
updateImageState(s, index, newUrl, timestamp) ==
  LET k == FindIndex(s.images, index)
  IN IF k = 0 THEN s
     ELSE [s EXCEPT !.images[k].url = CacheBusted(newUrl, timestamp),
                    !.images[k].status = "done",
                    !.images[k].error = Undefined]

updateImage(index, newUrl, timestamp) ==
  LET k == FindIndex(store.images, index)
      new == updateImageState(store, index, newUrl, timestamp)
  IN /\ Idle
     /\ store' = new
     /\ lastCall' = Call("updateImage", k # 0, FALSE, new)
     /\ Notify(new, FALSE, FALSE)
     /\ UNCHANGED << modalVars, storage, slot, autoSaveOn, viewVars, asyncVars >>

finishGeneration(taskId) ==
  LET new == [store EXCEPT !.taskId = taskId, !.stage = "result", !.progress.status = "done"]
  IN /\ Idle
     /\ store' = new
     /\ lastCall' = Call("finishGeneration", TRUE, FALSE, new)
     /\ Notify(new, FALSE, FALSE)
     /\ UNCHANGED << modalVars, storage, slot, autoSaveOn, viewVars, asyncVars >>

\* setImageRetrying(index) applied to state s.
setImageRetryingState(s, index) ==
  LET k == FindIndex(s.images, index)
  IN IF k = 0 THEN s ELSE [s EXCEPT !.images[k].status = "retrying"]

setImageRetrying(index) ==
  LET k == FindIndex(store.images, index)
      new == setImageRetryingState(store, index)
  IN /\ Idle
     /\ store' = new
     /\ lastCall' = Call("setImageRetrying", k # 0, FALSE, new)
     /\ Notify(new, FALSE, FALSE)
     /\ UNCHANGED << modalVars, storage, slot, autoSaveOn, viewVars, asyncVars >>

\* this.images.filter(img => img.status === 'error')
getFailedImages(s) == SelectSeq(s.images, LAMBDA img : img.status = "error")

\* getFailedPages with every image that is not done taken for a failed one.
getFailedPages_NotDone(s) ==
  LET failedIndices == SelectSeq(s.images, LAMBDA img : img.status # "done")
  IN SelectSeq(s.outline.pages,
               LAMBDA page : \E k \in 1..Len(failedIndices) : failedIndices[k].index = page.index)

\* The pages that failedIndices (the indices of the error images) includes.
getFailedPages(s) ==
  LET failed == getFailedImages(s)
      failedIndices == [k \in 1..Len(failed) |-> failed[k].index]
  IN SelectSeq(s.outline.pages,
               LAMBDA page : \E k \in 1..Len(failedIndices) : failedIndices[k] = page.index)

\* this.images.some(img => img.status === 'error')
hasFailedImages(s) == \E k \in 1..Len(s.images) : s.images[k].status = "error"

\* A call of one of the three getters: it returns, and assigns nothing.
Getter(op, nonEmpty) ==
  /\ Idle
  /\ lastCall' = [op |-> op, found |-> nonEmpty, threw |-> FALSE, changed |-> FALSE]
  /\ UNCHANGED << store, modalVars, storage, slot, autoSaveOn, storagePending, outlinePending,
                  viewVars, asyncVars >>

\* `!value` on an optional text.
Falsy(value) == value = Null \/ value = Undefined \/ value = ""

\* hasUnsavedChanges() without the test of lastSavedAt.
hasUnsavedChanges_IgnoreSavedAt(s) ==
  IF Falsy(s.recordId)
  THEN ~Falsy(s.topic) \/ Len(s.outline.pages) > 0 \/ Len(s.images) > 0
  ELSE FALSE

\* hasUnsavedChanges(): what it returns in state s.
hasUnsavedChanges(s) ==
  IF Falsy(s.recordId)
  THEN ~Falsy(s.topic) \/ Len(s.outline.pages) > 0 \/ Len(s.images) > 0
  ELSE IF Falsy(s.lastSavedAt)
       THEN TRUE
       ELSE FALSE

\* reset() with the assignment of content left out.
resetState_KeepContent(s) ==
  [s EXCEPT !.stage = "input",
            !.topic = "",
            !.outline = [raw |-> "", pages |-> << >>],
            !.progress = [current |-> 0, total |-> 0, status |-> "idle"],
            !.images = << >>,
            !.taskId = Null,
            !.recordId = Null,
            !.userImages = << >>,
            !.outlineStatus = "idle",
            !.lastSavedAt = Null]

\* The assignments of reset().
resetState(s) ==
  [s EXCEPT !.stage = "input",
            !.topic = "",
            !.outline = [raw |-> "", pages |-> << >>],
            !.progress = [current |-> 0, total |-> 0, status |-> "idle"],
            !.images = << >>,
            !.taskId = Null,
            !.recordId = Null,
            !.userImages = << >>,
            !.content = [status |-> "idle",
                         titles |-> << >>,
                         copywriting |-> "",
                         tags |-> << >>,
                         error |-> Undefined],
            !.outlineStatus = "idle",
            !.lastSavedAt = Null]

\* localStorage.removeItem at the end of reset() stands outside any try: what
\* it throws leaves reset().
resetThrows(s) == s = "throws"

\* reset(): every field is assigned its zero value (fresh objects for outline,
\* progress, images and content), then localStorage.removeItem(STORAGE_KEY).
reset ==
  LET new == resetState(store)
  IN /\ Idle
     /\ store' = new
     /\ lastCall' = Call("reset", TRUE, resetThrows(slot), new)
     /\ Notify(new, TRUE, TRUE)
     /\ storage' = IF slot = "throws" THEN storage ELSE << >>
     /\ slot' = IF slot = "throws" THEN slot ELSE "ok"
     /\ UNCHANGED << modalVars, autoSaveOn, viewVars, asyncVars >>

(* ------------------- topic, record id, content, storage ---------------- *)

setTopic(topic) ==
  LET new == [store EXCEPT !.topic = topic]
  IN /\ Idle
     /\ store' = new
     /\ lastCall' = Call("setTopic", TRUE, FALSE, new)
     /\ Notify(new, FALSE, FALSE)
     /\ UNCHANGED << modalVars, storage, slot, autoSaveOn, viewVars, asyncVars >>

\* setRecordId without the refresh of lastSavedAt.
setRecordIdState_NoSavedAt(s, recordId, time) == [s EXCEPT !.recordId = recordId]

\* setRecordId(recordId) with a string or null (the typeof check rejects nothing
\* else the model passes); time is what new Date() reads.
setRecordIdState(s, recordId, time) ==
  [s EXCEPT !.recordId = recordId,
            !.lastSavedAt = IF recordId # Null THEN ISOString(time) ELSE @]

setRecordId(recordId, time) ==
  LET new == setRecordIdState(store, recordId, time)
  IN /\ Idle
     /\ store' = new
     /\ lastCall' = Call("setRecordId", TRUE, FALSE, new)
     /\ Notify(new, FALSE, FALSE)
     /\ UNCHANGED << modalVars, storage, slot, autoSaveOn, viewVars, asyncVars >>

markSaved(time) ==
  LET new == [store EXCEPT !.lastSavedAt = ISOString(time)]
  IN /\ Idle
     /\ store' = new
     /\ lastCall' = Call("markSaved", TRUE, FALSE, new)
     /\ Notify(new, FALSE, FALSE)
     /\ UNCHANGED << modalVars, storage, slot, autoSaveOn, viewVars, asyncVars >>

setOutlineStatus(status) ==
  LET new == [store EXCEPT !.outlineStatus = status]
  IN /\ Idle
     /\ store' = new
     /\ lastCall' = Call("setOutlineStatus", TRUE, FALSE, new)
     /\ Notify(new, FALSE, FALSE)
     /\ UNCHANGED << modalVars, storage, slot, autoSaveOn, viewVars, asyncVars >>

startContentGeneration ==
  LET new == [store EXCEPT !.content.status = "generating", !.content.error = Undefined]
  IN /\ Idle
     /\ store' = new
     /\ lastCall' = Call("startContentGeneration", TRUE, FALSE, new)
     /\ Notify(new, FALSE, FALSE)
     /\ UNCHANGED << modalVars, storage, slot, autoSaveOn, viewVars, asyncVars >>

\* The content fields saveContentToHistory and the autosave send.
ContentPayload(c) ==
  [status |-> c.status, titles |-> c.titles, copywriting |-> c.copywriting, tags |-> c.tags]

\* A remote call in flight; outline and content are << >> when the call carries
\* none and << value >> when it carries one. inst is the view instance that
\* issued it (0 for the store), resume what awaits it besides its issuer.
Request(api, by, recordId, outline, content, inst, resume) ==
  [outline |-> outline,
   recordId |-> recordId,
   content |-> content,
   api |-> api,
   by |-> by,
   inst |-> inst,
   resume |-> resume]

\* setContent, then the synchronous start of saveContentToHistory(): with a
\* record id it suspends at await import('../api'), without one it returns.
setContent(titles, copywriting, tags) ==
  LET new == [store EXCEPT !.content.titles = titles,
                           !.content.copywriting = copywriting,
                           !.content.tags = tags,
                           !.content.status = "done",
                           !.content.error = Undefined]
  IN /\ Idle
     /\ store.recordId # Null => importing < MaxInFlight
     /\ store' = new
     /\ lastCall' = Call("setContent", TRUE, FALSE, new)
     /\ Notify(new, TRUE, FALSE)
     /\ importing' = IF store.recordId # Null THEN importing + 1 ELSE importing
     /\ UNCHANGED << modalVars, storage, slot, autoSaveOn, viewVars, requests >>

\* saveContentToHistory() resumed after the import: it calls
\* updateHistory(this.recordId, {content}) with the record id and content of now.
saveContentToHistory ==
  /\ Idle
  /\ importing > 0
  /\ Len(requests) < MaxInFlight
  /\ importing' = importing - 1
  /\ requests' = Append(requests,
       Request("updateHistory", "saveContentToHistory", store.recordId,
               << >>, << ContentPayload(store.content) >>, 0, ""))
  /\ UNCHANGED << modalVars, store, lastCall, storage, slot, autoSaveOn, storagePending, outlinePending, viewVars >>

\* The response to saveContentToHistory's updateHistory, with a failure
\* written back into the content as an error.
saveContentResponse_Reverts ==
  /\ Idle
  /\ \E k \in 1..Len(requests) :
       /\ requests[k].by = "saveContentToHistory"
       /\ requests' = RemoveAt(requests, k - 1)
  /\ store' = [store EXCEPT !.content.status = "error", !.content.error = "save failed"]
  /\ UNCHANGED << modalVars, lastCall, storage, slot, autoSaveOn, storagePending, outlinePending,
                  viewVars, importing >>

\* The response to saveContentToHistory's updateHistory (success, a non-success
\* result or a thrown error): it is logged and nothing else happens.
saveContentResponse ==
  /\ Idle
  /\ \E k \in 1..Len(requests) :
       /\ requests[k].by = "saveContentToHistory"
       /\ requests' = RemoveAt(requests, k - 1)
  /\ UNCHANGED << modalVars, store, lastCall, storage, slot, autoSaveOn, storagePending, outlinePending,
                  viewVars, importing >>

setContentError(error) ==
  LET new == [store EXCEPT !.content.status = "error", !.content.error = error]
  IN /\ Idle
     /\ store' = new
     /\ lastCall' = Call("setContentError", TRUE, FALSE, new)
     /\ Notify(new, FALSE, FALSE)
     /\ UNCHANGED << modalVars, storage, slot, autoSaveOn, viewVars, asyncVars >>

clearContent ==
  LET new == [store EXCEPT !.content = [status |-> "idle",
                                        titles |-> << >>,
                                        copywriting |-> "",
                                        tags |-> << >>,
                                        error |-> Undefined]]
  IN /\ Idle
     /\ store' = new
     /\ lastCall' = Call("clearContent", TRUE, FALSE, new)
     /\ Notify(new, TRUE, FALSE)
     /\ UNCHANGED << modalVars, storage, slot, autoSaveOn, viewVars, asyncVars >>

\* saveState with lastSavedAt left out of the toSave object.
saveState_WithoutSavedAt(s) == [Tracked(s) EXCEPT !.lastSavedAt = Null]

\* saveState's toSave object: every field but userImages. JSON.stringify drops
\* the properties whose value is undefined, which read as undefined again
\* after JSON.parse.
saveState(s) == Tracked(s)

\* saveState's try/catch logs what setItem throws: nothing leaves saveState.
saveStateThrows(s) == FALSE

\* The slot after saveState(s): unchanged when setItem throws.
Saved(s) == IF slot = "throws" THEN storage ELSE << saveState(s) >>

\* saveToStorage(): localStorage.setItem(STORAGE_KEY, JSON.stringify(toSave)).
saveToStorage ==
  /\ Idle
  /\ storage' = Saved(store)
  /\ slot' = IF slot = "throws" THEN slot ELSE "ok"
  /\ lastCall' = Call("saveToStorage", TRUE, saveStateThrows(slot), store)
  /\ UNCHANGED << modalVars, store, autoSaveOn, storagePending, outlinePending, viewVars, asyncVars >>

\* setupAutoSave(): installs the deep watcher on the store's fields.
setupAutoSave ==
  /\ Idle
  /\ ~autoSaveOn
  /\ autoSaveOn' = TRUE
  /\ UNCHANGED << modalVars, store, lastCall, storage, slot, storagePending, outlinePending, viewVars, asyncVars >>

\* The setupAutoSave watcher's callback, run when the queued jobs are flushed:
\* store.saveToStorage().
autoSaveWatcher ==
  /\ storagePending
  /\ storage' = Saved(store)
  /\ slot' = IF slot = "throws" THEN slot ELSE "ok"
  /\ storagePending' = FALSE
  /\ UNCHANGED << modalVars, store, lastCall, autoSaveOn, outlinePending, viewVars, asyncVars >>

\* `value || fallback` on an optional text.
OrElse(value, fallback) ==
  IF value = Null \/ value = Undefined \/ value = "" THEN fallback ELSE value

\* loadState with its try/catch left out: what getItem or JSON.parse throws
\* leaves it.
loadStateThrows_Uncaught(s) == s \in {"throws", "corrupt"}

\* loadState's try/catch logs what getItem or JSON.parse throws: nothing
\* leaves loadState.
loadStateThrows(s) == FALSE

\* loadState(): the parsed snapshot; {} (here << >>) when the slot is absent,
\* when getItem throws and when JSON.parse throws.
loadState == IF slot = "ok" THEN storage ELSE << >>

\* state(): each field is the saved one, or its default when the saved one is
\* missing or falsy; userImages are never restored.
InitialState(saved) ==
  IF saved = << >>
  THEN DefaultState
  ELSE [DefaultState EXCEPT !.stage = OrElse(saved[1].stage, "input"),
                            !.topic = OrElse(saved[1].topic, ""),
                            !.outline = saved[1].outline,
                            !.progress = saved[1].progress,
                            !.images = saved[1].images,
                            !.taskId = OrElse(saved[1].taskId, Null),
                            !.recordId = OrElse(saved[1].recordId, Null),
                            !.content = saved[1].content,
                            !.outlineStatus = OrElse(saved[1].outlineStatus, "idle"),
                            !.lastSavedAt = OrElse(saved[1].lastSavedAt, Null)]

\* The page is loaded again and the store is created: state() runs loadState().
\* Nothing of the page that was survives but localStorage.
createStore ==
  LET threw == loadStateThrows(slot)
      new == IF threw THEN store ELSE InitialState(loadState)
  IN /\ Idle
     /\ store' = new
     /\ lastCall' = Call("createStore", loadState # << >>, threw, new)
     /\ autoSaveOn' = FALSE
     /\ storagePending' = FALSE
     /\ outlinePending' = FALSE
     /\ mounted' = FALSE
     /\ saveTimer' = 0
     /\ timers' = {}
     /\ isSaving' = FALSE
     /\ debounced' = FALSE
     /\ runsSinceEdit' = 0
     /\ superseded' = FALSE
     /\ importing' = 0
     /\ requests' = << >>
     /\ record' = << >>
     /\ contentLoading' = FALSE
     /\ contentError' = ""
     /\ UNCHANGED << storage, slot, instance, unsent >>

\* A component puts the files the user uploaded into the state's userImages
\* field; the setupAutoSave watcher does not read it.
attachUserImages(files) ==
  LET new == [store EXCEPT !.userImages = files]
  IN /\ Idle
     /\ store' = new
     /\ lastCall' = Call("attachUserImages", TRUE, FALSE, new)
     /\ Notify(new, FALSE, FALSE)
     /\ UNCHANGED << modalVars, storage, slot, autoSaveOn, viewVars, asyncVars >>

\* Outside the program: the text under the key is replaced by text that is not
\* JSON, or the browser starts or stops refusing access to localStorage.
storageFault(k) ==
  /\ Idle
  /\ k # slot
  /\ k = "corrupt" => slot = "ok"
  /\ k = "ok" => slot = "throws"
  /\ slot' = k
  /\ storage' = IF k = "corrupt" THEN << >> ELSE storage
  /\ lastCall' = Call("storageFault", TRUE, FALSE, store)
  /\ UNCHANGED << store, autoSaveOn, storagePending, outlinePending, viewVars,
                  asyncVars, modalVars >>

(* ---------------------- the outline editing view ---------------------- *)

\* No remote call is in flight.
NoCallInFlight == requests = << >>

\* clearTimeout left out.
clearTimeoutSkipped(ts, t) == ts

\* clearTimeout(t) on the browser's pending timeouts ts.
clearTimeout(ts, t) == ts \ {t}

\* window.setTimeout's id for a new timeout: one no pending timeout has.
NewTimer(ts) == CHOOSE t \in 1..(Cardinality(ts) + 1) : t \notin ts

\* The outline a save call carries.
OutlinePayload(s) == [raw |-> s.outline.raw, pages |-> s.outline.pages]

\* The content a save call carries: only content whose status is done.
DoneContent(s) == IF s.content.status = "done" THEN << ContentPayload(s.content) >> ELSE << >>

\* autoSaveOutline()'s early returns: no record id, or no pages.
autoSaveSkips(s) == s.recordId = Null \/ Len(s.outline.pages) = 0

\* onUnmounted: the pending timer is cleared and forgotten.
onUnmounted ==
  /\ mounted' = FALSE
  /\ timers' = IF saveTimer # 0 THEN clearTimeout(timers, saveTimer) ELSE timers
  /\ saveTimer' = 0

\* The view is mounted (a new instance of its script): onMounted runs
\* checkAndCreateHistory(), which calls createHistory when there is no record id
\* but there are pages.
onMounted ==
  LET create == store.recordId = Null /\ Len(store.outline.pages) > 0
  IN /\ Idle
     /\ ~mounted
     /\ instance < MaxMounts
     /\ create => Len(requests) < MaxInFlight
     /\ mounted' = TRUE
     /\ instance' = instance + 1
     /\ saveTimer' = 0
     /\ isSaving' = FALSE
     /\ debounced' = FALSE
     /\ runsSinceEdit' = 0
     /\ superseded' = FALSE
     /\ requests' = IF create
                    THEN Append(requests,
                           Request("createHistory", "checkAndCreateHistory", Null,
                                   << OutlinePayload(store) >>, DoneContent(store),
                                   instance + 1, ""))
                    ELSE requests
     /\ unsent' = (unsent /\ ~create)
     /\ lastCall' = Call("onMounted", TRUE, FALSE, store)
     /\ UNCHANGED << modalVars, store, storage, slot, autoSaveOn, storagePending, outlinePending, timers,
                     importing >>

\* createHistory returned {success, record_id}: store.setRecordId(record_id).
createHistorySuccess(recordId, time) ==
  LET new == setRecordIdState(store, recordId, time)
  IN /\ Idle
     /\ \E k \in 1..Len(requests) :
          /\ requests[k].api = "createHistory"
          /\ requests' = RemoveAt(requests, k - 1)
     /\ store' = new
     /\ lastCall' = Call("setRecordId", TRUE, FALSE, new)
     /\ Notify(new, FALSE, FALSE)
     /\ UNCHANGED << modalVars, storage, slot, autoSaveOn, viewVars, importing >>

\* createHistory returned a failure or threw: it is logged.
createHistoryFailure ==
  /\ Idle
  /\ \E k \in 1..Len(requests) :
       /\ requests[k].api = "createHistory"
       /\ requests' = RemoveAt(requests, k - 1)
  /\ UNCHANGED << modalVars, store, lastCall, storage, slot, autoSaveOn, storagePending, outlinePending,
                  viewVars, importing >>

\* An edit handler of the view leaves the store in state new.
ViewEdit(op, new) ==
  /\ Idle
  /\ mounted
  /\ store' = new
  /\ lastCall' = Call(op, TRUE, FALSE, new)
  /\ Notify(new, FALSE, new.outline.pages # store.outline.pages)
  /\ unsent' = (unsent \/ new.outline.pages # store.outline.pages)
  /\ UNCHANGED << modalVars, storage, slot, autoSaveOn, mounted, instance, saveTimer, timers, isSaving,
                  debounced, runsSinceEdit, superseded, asyncVars >>

\* Typing text into the textarea of the page at position k (1-based): v-model
\* assigns page.content, then @input calls store.updatePage(page.index, page.content).
textareaInput(k, text) ==
  LET typed == [store EXCEPT !.outline.pages[k].content = text]
  IN /\ text # store.outline.pages[k].content
     /\ ViewEdit("textareaInput", updatePageState(typed, typed.outline.pages[k].index, text))

\* The delete button of the card at position idx (confirmed): store.deletePage(idx).
cardDeletePage(idx) == ViewEdit("cardDeletePage", deletePageState(store, idx))

\* The add card: store.addPage('content', '').
cardAddPage ==
  /\ Len(store.outline.pages) < MaxViewPages
  /\ ViewEdit("cardAddPage", addPageState(store, "content", ""))

\* onDrop on the card at position index of the card dragged from draggedIndex.
onDrop(draggedIndex, index) ==
  /\ draggedIndex # index
  /\ ViewEdit("onDrop", movePageState(store, draggedIndex, index))

\* The view's watcher on store.outline.pages runs debouncedSave().
debouncedSave ==
  LET cleared == IF saveTimer # 0 THEN clearTimeout(timers, saveTimer) ELSE timers
      t == NewTimer(cleared)
  IN /\ outlinePending
     /\ Cardinality(cleared) < MaxInFlight
     /\ outlinePending' = FALSE
     /\ timers' = cleared \cup {t}
     /\ saveTimer' = t
     /\ debounced' = TRUE
     /\ superseded' = (saveTimer # 0)
     /\ runsSinceEdit' = 0
     /\ UNCHANGED << modalVars, store, lastCall, storage, slot, autoSaveOn, storagePending, mounted, instance,
                     isSaving, unsent, asyncVars >>

\* autoSaveOutline() up to its await: nothing when it returns early, else
\* isSaving is set and updateHistory is called with the outline (and done content).
autoSaveOutline(resume) ==
  /\ runsSinceEdit' = Min(runsSinceEdit + 1, MaxInFlight)
  /\ IF autoSaveSkips(store)
     THEN UNCHANGED << isSaving, requests, unsent >>
     ELSE /\ Len(requests) < MaxInFlight
          /\ isSaving' = TRUE
          /\ requests' = Append(requests,
               Request("updateHistory", "autoSaveOutline", store.recordId,
                       << OutlinePayload(store) >>, DoneContent(store), instance, resume))
          /\ unsent' = FALSE

\* The timeout t set by debouncedSave fires: autoSaveOutline(); saveTimer = null.
timerFires(t) ==
  /\ Idle
  /\ t \in timers
  /\ timers' = timers \ {t}
  /\ autoSaveOutline("")
  /\ saveTimer' = 0
  /\ lastCall' = Call("timerFires", TRUE, FALSE, store)
  /\ UNCHANGED << modalVars, store, storage, slot, autoSaveOn, storagePending, outlinePending, mounted, instance,
                  debounced, superseded, importing >>

\* The view's startGeneration: a pending save is flushed and awaited, then
\* router.push('/generate') leaves the view.
OutlineView_startGeneration ==
  /\ Idle
  /\ mounted
  /\ lastCall' = Call("OutlineView_startGeneration", TRUE, FALSE, store)
  /\ IF saveTimer = 0
     THEN /\ onUnmounted
          /\ UNCHANGED << isSaving, requests, unsent, runsSinceEdit >>
     ELSE /\ autoSaveOutline("router.push")
          /\ IF autoSaveSkips(store)
             THEN onUnmounted
             ELSE /\ timers' = clearTimeout(timers, saveTimer)
                  /\ saveTimer' = 0
                  /\ UNCHANGED mounted
  /\ UNCHANGED << modalVars, store, storage, slot, autoSaveOn, storagePending, outlinePending, instance,
                  debounced, superseded, importing >>

\* autoSaveOutline's continuation without its finally block: isSaving is
\* left as it is.
autoSaveResponse_NoFinally ==
  /\ Idle
  /\ \E k \in 1..Len(requests) :
       /\ requests[k].by = "autoSaveOutline"
       /\ requests' = RemoveAt(requests, k - 1)
       /\ IF requests[k].resume = "router.push" /\ mounted
          THEN onUnmounted
          ELSE UNCHANGED << mounted, timers, saveTimer >>
  /\ UNCHANGED << modalVars, store, lastCall, storage, slot, autoSaveOn, storagePending, outlinePending,
                  instance, isSaving, unsent, debounced, runsSinceEdit, superseded, importing >>

\* updateHistory of autoSaveOutline settled (success, failure or a throw, all
\* only logged): finally isSaving = false; an awaiting startGeneration goes on
\* to router.push('/generate').
autoSaveResponse ==
  /\ Idle
  /\ \E k \in 1..Len(requests) :
       /\ requests[k].by = "autoSaveOutline"
       /\ requests' = RemoveAt(requests, k - 1)
       /\ isSaving' = IF requests[k].inst = instance THEN FALSE ELSE isSaving
       /\ IF requests[k].resume = "router.push" /\ mounted
          THEN onUnmounted
          ELSE UNCHANGED << mounted, timers, saveTimer >>
  /\ UNCHANGED << modalVars, store, lastCall, storage, slot, autoSaveOn, storagePending, outlinePending,
                  instance, unsent, debounced, runsSinceEdit, superseded, importing >>

\* goBack: router.back() leaves the view.
goBack ==
  /\ Idle
  /\ mounted
  /\ onUnmounted
  /\ lastCall' = Call("goBack", TRUE, FALSE, store)
  /\ UNCHANGED << modalVars, store, storage, slot, autoSaveOn, storagePending, outlinePending, instance,
                  isSaving, unsent, debounced, runsSinceEdit, superseded, asyncVars >>

(* --------------------------- the gallery modal ------------------------ *)

\* The message shown when a failure carries none of its own.
DefaultError == "generation failed"

\* The guard of regenerateContent left out.
alreadyLoading_Never == FALSE

\* regenerateContent's guard on a regeneration in flight.
alreadyLoading == contentLoading

\* The parent hands the modal another record, or none (the modal is closed).
propsRecord(r) ==
  /\ Idle
  /\ record' = r
  /\ lastCall' = [op |-> "propsRecord", found |-> r # << >>, threw |-> FALSE, changed |-> FALSE]
  /\ UNCHANGED << store, storage, slot, autoSaveOn, storagePending, outlinePending, viewVars,
                  asyncVars, contentLoading, contentError >>

\* regenerateContent() up to its await: nothing without a record or while a
\* regeneration is in flight; else contentLoading is set, contentError is
\* cleared, and generateContent is called with the record's title and raw text.
regenerateContent ==
  LET issued == record # << >> /\ ~alreadyLoading
  IN /\ Idle
     /\ issued => Len(requests) < MaxInFlight
     /\ lastCall' = [op |-> "regenerateContent", found |-> record # << >>, threw |-> FALSE,
                     changed |-> issued]
     /\ IF issued
        THEN /\ contentLoading' = TRUE
             /\ contentError' = ""
             /\ requests' = Append(requests,
                  Request("generateContent", "regenerateContent", record[1].id,
                          << >>, << >>, 0, ""))
        ELSE UNCHANGED << contentLoading, contentError, requests >>
     /\ UNCHANGED << store, storage, slot, autoSaveOn, storagePending, outlinePending, viewVars,
                     importing, record >>

\* generateContent settled with {success: ok, titles, copywriting, tags, error}
\* (titles and tags are lists, which are truthy even when empty). A complete
\* successful result is written into the content of the record the modal
\* shows now, if it has one; reading the content of no record throws, which is
\* caught like a rejected call; a failure sets contentError. Finally
\* contentLoading is cleared.
generateContentSettled(ok, titles, copywriting, tags, error) ==
  /\ Idle
  /\ \E k \in 1..Len(requests) :
       /\ requests[k].api = "generateContent"
       /\ requests' = RemoveAt(requests, k - 1)
  /\ IF ok /\ Truthy(copywriting) /\ record # << >>
     THEN /\ record' =
               IF record[1].content # << >>
               THEN << [record[1] EXCEPT !.content =
                         << [status |-> "done",
                             titles |-> titles,
                             copywriting |-> copywriting,
                             tags |-> tags,
                             error |-> Undefined] >>] >>
               ELSE record
          /\ UNCHANGED contentError
     ELSE /\ contentError' = IF Truthy(error) THEN error ELSE DefaultError
          /\ UNCHANGED record
  /\ contentLoading' = FALSE
  /\ UNCHANGED << store, lastCall, storage, slot, autoSaveOn, storagePending, outlinePending,
                  viewVars, importing >>

\* saveEditAndGenerate(saveToHistory) while the editor is open on the page at
\* position idx (0-based) with the text editingText: the page's content in
\* the record is replaced; with saveToHistory, updateHistory is called with
\* the record's raw text and pages. (savingEdit, the regenerate event and the
\* closing of the editor are outside the state modelled here.)
saveEditAndGenerate(idx, editingText, saveToHistory) ==
  LET edited == [record[1] EXCEPT !.outline.pages[idx + 1].content = editingText]
  IN /\ Idle
     /\ record # << >>
     /\ idx + 1 \in 1..Len(record[1].outline.pages)
     /\ saveToHistory => Len(requests) < MaxInFlight
     /\ record' = << edited >>
     /\ requests' = IF saveToHistory
                    THEN Append(requests,
                           Request("updateHistory", "saveEditAndGenerate", edited.id,
                                   << [raw |-> edited.outline.raw,
                                       pages |-> edited.outline.pages] >>,
                                   << >>, 0, ""))
                    ELSE requests
     /\ lastCall' = [op |-> "saveEditAndGenerate", found |-> TRUE, threw |-> FALSE,
                     changed |-> edited # record[1]]
     /\ UNCHANGED << store, storage, slot, autoSaveOn, storagePending, outlinePending, viewVars,
                     importing, contentLoading, contentError >>

\* updateHistory of saveEditAndGenerate settled: a failure is logged.
saveEditResponse ==
  /\ Idle
  /\ \E k \in 1..Len(requests) :
       /\ requests[k].by = "saveEditAndGenerate"
       /\ requests' = RemoveAt(requests, k - 1)
  /\ UNCHANGED << store, lastCall, storage, slot, autoSaveOn, storagePending, outlinePending,
                  viewVars, importing, modalVars >>

(* ------------------------------- Init --------------------------------- *)

Init ==
  /\ store = DefaultState
  /\ lastCall = [op |-> "init", found |-> TRUE, threw |-> FALSE, changed |-> FALSE]
  /\ storage = << >>
  /\ slot = "ok"
  /\ autoSaveOn = FALSE
  /\ storagePending = FALSE
  /\ outlinePending = FALSE
  /\ mounted = FALSE
  /\ instance = 0
  /\ saveTimer = 0
  /\ timers = {}
  /\ isSaving = FALSE
  /\ unsent = FALSE
  /\ debounced = FALSE
  /\ runsSinceEdit = 0
  /\ superseded = FALSE
  /\ importing = 0
  /\ requests = << >>
  /\ record = << >>
  /\ contentLoading = FALSE
  /\ contentError = ""

(* ------------------- the outline editor, on its own ------------------- *)

SetOutlineAny ==
  \E n \in 0..MaxPages, c \in Contents :
    \E raw \in RawInputs(GeneratedPages(n, c)) : setOutline(raw, GeneratedPages(n, c))
UpdatePageAny == \E i \in IndexArgs, c \in Contents : updatePage(i, c)
DeletePageAny == \E i \in IndexArgs : deletePage(i)
AddPageAny == \E t \in PageTypes, c \in Contents : addPage(t, c)
InsertPageAny == \E i \in IndexArgs, t \in PageTypes, c \in Contents : insertPage(i, t, c)
MovePageAny == \E f \in IndexArgs, t \in IndexArgs : movePage(f, t)

NextOutline ==
  \/ SetOutlineAny
  \/ UpdatePageAny
  \/ DeletePageAny
  \/ AddPageAny
  \/ InsertPageAny
  \/ MovePageAny

SpecOutline == Init /\ [][NextOutline]_vars

(* ----------------------- the generation tracker ----------------------- *)

ImageArgs == 0..MaxImages
Times == 1..MaxTime

GenAddPage == Len(store.outline.pages) < MaxImages /\ addPage("content", "")
GenStart == startGeneration
GenUpdateProgress ==
  \E i \in ImageArgs :
    \/ updateProgress(i, "generating", Undefined, Undefined)
    \/ updateProgress(i, "done", "u", Undefined)
    \/ updateProgress(i, "error", Undefined, "e")
\* The regenerated image arrives at one clock value: the timestamp only marks the url.
GenUpdateImage == \E i \in ImageArgs : updateImage(i, "u", MaxTime)
GenRetrying == \E i \in ImageArgs : setImageRetrying(i)
GenFinish == finishGeneration("task")
GenReset == reset

NextGen ==
  \/ GenAddPage
  \/ GenStart
  \/ GenUpdateProgress
  \/ GenUpdateImage
  \/ GenRetrying
  \/ GenFinish
  \/ GenReset

SpecGen == Init /\ [][NextGen]_vars

(* --------------------------- the failed images ------------------------ *)

FailedAddPage == Len(store.outline.pages) < MaxImages /\ addPage("content", "")
FailedDeletePage == \E i \in ImageArgs : deletePage(i)
FailedStart == startGeneration
FailedProgress ==
  \E i \in ImageArgs :
    \/ updateProgress(i, "done", "u", Undefined)
    \/ updateProgress(i, "error", Undefined, "e")
FailedGetImages == Getter("getFailedImages", getFailedImages(store) # << >>)
FailedGetPages == Getter("getFailedPages", getFailedPages(store) # << >>)
FailedHas == Getter("hasFailedImages", hasFailedImages(store))

NextFailed ==
  \/ FailedAddPage
  \/ FailedDeletePage
  \/ FailedStart
  \/ FailedProgress
  \/ FailedGetImages
  \/ FailedGetPages
  \/ FailedHas

SpecFailed == Init /\ [][NextFailed]_vars

(* ------------------------ the store and its snapshot ------------------ *)

RecordIds == {"r1"}

StoreSetTopic == setTopic("T")
StoreSetOutline == setOutline("A", GeneratedPages(1, "A"))
StoreStart == startGeneration
StoreProgress == updateProgress(0, "done", "u", Undefined)
StoreFinish == finishGeneration("task")
StoreSetRecordId == \E id \in RecordIds \cup {Null}, t \in Times : setRecordId(id, t)
\* Content is set here before the record exists, so that no save is started
\* (the save is followed in SpecContent).
StoreSetContent == store.recordId = Null /\ setContent(<< "title" >>, "copy", << "tag" >>)
StoreContentError == setContentError("e")
\* setupAutoSave() is called once, when the application starts.
StoreSetup == lastCall.op = "init" /\ setupAutoSave
StoreWatcher == autoSaveWatcher
StoreReset == reset

NextStore ==
  \/ StoreSetTopic
  \/ StoreSetOutline
  \/ StoreStart
  \/ StoreProgress
  \/ StoreFinish
  \/ StoreSetRecordId
  \/ StoreSetContent
  \/ StoreContentError
  \/ StoreSetup
  \/ StoreWatcher
  \/ StoreReset

SpecStore == Init /\ [][NextStore]_vars

(* ------------------ the snapshot across page loads -------------------- *)

LoadSetTopic == setTopic("T")
LoadSetOutline == setOutline("A", GeneratedPages(1, "A"))
LoadSetRecordId == \E id \in RecordIds, t \in Times : setRecordId(id, t)
LoadReset == reset
LoadSave == saveToStorage
LoadCreate == createStore
LoadFault == \E k \in {"ok", "throws", "corrupt"} : storageFault(k)

NextLoad ==
  \/ LoadSetTopic
  \/ LoadSetOutline
  \/ LoadSetRecordId
  \/ LoadReset
  \/ LoadSave
  \/ LoadCreate
  \/ LoadFault

SpecLoad == Init /\ [][NextLoad]_vars

(* ------------- hasUnsavedChanges over restored snapshots -------------- *)

\* What the key may hold when the page is first loaded: a snapshot of an
\* earlier session, which need not have every field (loadState returns a
\* Partial<GeneratorState>; an absent field reads as null here).
EarlierSnapshots ==
  { Tracked([DefaultState EXCEPT
               !.topic = topic,
               !.outline = [raw |-> JoinContents(GeneratedPages(n, "A")),
                            pages |-> GeneratedPages(n, "A")],
               !.images = [k \in 1..m |-> NewImage(GeneratedPages(m, "A")[k])],
               !.recordId = recordId,
               !.lastSavedAt = lastSavedAt]) :
      topic \in {"", "T"}, n \in 0..1, m \in 0..1,
      recordId \in {Null, "r1"}, lastSavedAt \in {Null, ISOString(0)} }

InitUnsaved ==
  /\ store = DefaultState
  /\ lastCall = [op |-> "init", found |-> TRUE, threw |-> FALSE, changed |-> FALSE]
  /\ storage \in {<< s >> : s \in EarlierSnapshots}
  /\ slot = "ok"
  /\ autoSaveOn = FALSE
  /\ storagePending = FALSE
  /\ outlinePending = FALSE
  /\ mounted = FALSE
  /\ instance = 0
  /\ saveTimer = 0
  /\ timers = {}
  /\ isSaving = FALSE
  /\ unsent = FALSE
  /\ debounced = FALSE
  /\ runsSinceEdit = 0
  /\ superseded = FALSE
  /\ importing = 0
  /\ requests = << >>
  /\ record = << >>
  /\ contentLoading = FALSE
  /\ contentError = ""

UnsavedCreate == lastCall.op = "init" /\ createStore
UnsavedSetTopic == \E topic \in {"", "T"} : setTopic(topic)
UnsavedSetRecordId == \E id \in {Null, "", "r1"}, t \in Times : setRecordId(id, t)
UnsavedMarkSaved == \E t \in Times : markSaved(t)
UnsavedGet == Getter("hasUnsavedChanges", hasUnsavedChanges(store))

NextUnsaved ==
  \/ UnsavedCreate
  \/ UnsavedSetTopic
  \/ UnsavedSetRecordId
  \/ UnsavedMarkSaved
  \/ UnsavedGet

SpecUnsaved == InitUnsaved /\ [][NextUnsaved]_vars

(* --------------------------- the outline view ------------------------- *)

\* The outline arrives from the outline generator before the view is shown.
ViewSetOutline ==
  \E n \in 1..MaxViewPages :
    /\ instance = 0
    /\ Len(store.outline.pages) = 0
    /\ setOutline(JoinContents(GeneratedPages(n, "A")), GeneratedPages(n, "A"))
\* The view is mounted when no call is in flight, or creates no record.
MountsAlone == store.recordId = Null /\ Len(store.outline.pages) > 0 => NoCallInFlight
ViewMount == MountsAlone /\ onMounted
ViewCreated == \E id \in RecordIds, t \in Times : createHistorySuccess(id, t)
ViewCreateFailed == createHistoryFailure
ViewInput == \E k \in 1..Len(store.outline.pages), c \in Contents : textareaInput(k, c)
ViewDelete == \E idx \in 0..(Len(store.outline.pages) - 1) : cardDeletePage(idx)
ViewAdd == cardAddPage
ViewDrop ==
  \E from \in 0..(Len(store.outline.pages) - 1), to \in 0..(Len(store.outline.pages) - 1) :
    onDrop(from, to)
ViewDebounce == debouncedSave
\* In this specification the server answers a save before the next one is
\* issued.
ViewTimer == \E t \in timers : (autoSaveSkips(store) \/ NoCallInFlight) /\ timerFires(t)
ViewStart ==
  /\ saveTimer = 0 \/ autoSaveSkips(store) \/ NoCallInFlight
  /\ OutlineView_startGeneration
ViewSaved == autoSaveResponse
ViewBack == goBack

NextView ==
  \/ ViewSetOutline
  \/ ViewMount
  \/ ViewCreated
  \/ ViewCreateFailed
  \/ ViewInput
  \/ ViewDelete
  \/ ViewAdd
  \/ ViewDrop
  \/ ViewDebounce
  \/ ViewTimer
  \/ ViewStart
  \/ ViewSaved
  \/ ViewBack

SpecView == Init /\ [][NextView]_vars

(* --------------------------- the gallery modal ------------------------ *)

\* The records the history list can hand to the modal: without content, with
\* content not generated yet, with generated content, or with content whose
\* generation failed.
ModalRecords ==
  { [outline |-> [raw |-> JoinContents(GeneratedPages(2, "A")),
                  pages |-> GeneratedPages(2, "A")],
     content |-> c, id |-> id] :
      id \in {"r1", "r2"},
      c \in { << >>,
              << [status |-> "idle", titles |-> << >>, copywriting |-> "", tags |-> << >>,
                  error |-> Undefined] >>,
              << [status |-> "done", titles |-> << "t" >>, copywriting |-> "A",
                  tags |-> << "g" >>, error |-> Undefined] >>,
              << [status |-> "error", titles |-> << >>, copywriting |-> "", tags |-> << >>,
                  error |-> "E"] >> } }

\* What generateContent answers: its titles, copywriting and tags.
ContentResults ==
  { [titles |-> t, copywriting |-> c, tags |-> g] :
      t \in {<< "t" >>, << "u" >>}, c \in {"", "A", "B"}, g \in {<< "g" >>} }

ModalOpen == \E r \in ModalRecords : propsRecord(<< r >>)
ModalClose == record # << >> /\ propsRecord(<< >>)
ModalRegenerate == regenerateContent
ModalSettled ==
  \E ok \in BOOLEAN, r \in ContentResults, e \in {Undefined, "E"} :
    generateContentSettled(ok, r.titles, r.copywriting, r.tags, e)

ModalSaveEdit ==
  \E idx \in 0..1, save \in BOOLEAN : saveEditAndGenerate(idx, "B", save)
ModalEditSaved == saveEditResponse

NextModal ==
  \/ ModalSaveEdit
  \/ ModalEditSaved
  \/ ModalOpen
  \/ ModalClose
  \/ ModalRegenerate
  \/ ModalSettled

SpecModal == Init /\ [][NextModal]_vars

(* ------------- the outline view with overlapping saves --------------- *)

\* The view over a saved one-page outline; the server may answer a save at
\* any time after it was issued, also after later saves were issued.
SavesSetOutline ==
  /\ instance = 0
  /\ Len(store.outline.pages) = 0
  /\ setOutline(JoinContents(GeneratedPages(1, "A")), GeneratedPages(1, "A"))
SavesMount == MountsAlone /\ onMounted
SavesCreated == \E id \in RecordIds, t \in Times : createHistorySuccess(id, t)
SavesInput == \E k \in 1..Len(store.outline.pages), c \in Contents : textareaInput(k, c)
SavesDebounce == debouncedSave
SavesTimer == \E t \in timers : timerFires(t)
SavesStart == OutlineView_startGeneration
SavesSaved == autoSaveResponse
SavesBack == goBack

NextSaves ==
  \/ SavesSetOutline
  \/ SavesMount
  \/ SavesCreated
  \/ SavesInput
  \/ SavesDebounce
  \/ SavesTimer
  \/ SavesStart
  \/ SavesSaved
  \/ SavesBack

SpecSaves == Init /\ [][NextSaves]_vars

\* The event loop runs a queued watcher job, and the promise of updateHistory
\* settles (with a result or an error).
SpecSavesFair == SpecSaves /\ WF_vars(SavesDebounce) /\ SF_vars(SavesSaved)

(* ------------- the outline view left and entered again ---------------- *)

\* The user leaves the outline view and comes back at any time, also while
\* the creation of the record is still in flight.
MountsSetOutline ==
  /\ instance = 0
  /\ Len(store.outline.pages) = 0
  /\ setOutline(JoinContents(GeneratedPages(1, "A")), GeneratedPages(1, "A"))
MountsMount == onMounted
MountsCreated == \E id \in RecordIds, t \in Times : createHistorySuccess(id, t)
MountsCreateFailed == createHistoryFailure
MountsInput == \E k \in 1..Len(store.outline.pages), c \in Contents : textareaInput(k, c)
MountsDebounce == debouncedSave
MountsTimer == \E t \in timers : NoCallInFlight /\ timerFires(t)
MountsSaved == autoSaveResponse
MountsBack == goBack

NextMounts ==
  \/ MountsSetOutline
  \/ MountsMount
  \/ MountsCreated
  \/ MountsCreateFailed
  \/ MountsInput
  \/ MountsDebounce
  \/ MountsTimer
  \/ MountsSaved
  \/ MountsBack

SpecMounts == Init /\ [][NextMounts]_vars

(* ------------- image updates that arrive in any order ---------------- *)

\* The outlines the generator may answer with: two pages, in page order or not.
UnorderedPages ==
  { << [content |-> "A", index |-> i, type |-> "cover"],
       [content |-> "A", index |-> 1 - i, type |-> "content"] >> : i \in 0..1 }

ImagesSetOutline == \E pages \in UnorderedPages : setOutline("raw", pages)
ImagesStart == Len(store.outline.pages) > 0 /\ startGeneration
\* The bulk generation reports the image with index 1 done or failed; the
\* regeneration of the image with index 0 reports its progress, is retried
\* and succeeds.
ImagesUpdateProgress ==
  \/ updateProgress(1, "done", "u", Undefined)
  \/ updateProgress(1, "error", Undefined, "e")
ImagesUpdateImageProgress == updateImageProgress(0, 50)
ImagesUpdateImage == updateImage(0, "v", MaxTime)
ImagesRetrying == setImageRetrying(0)

NextImages ==
  \/ ImagesSetOutline
  \/ ImagesStart
  \/ ImagesUpdateProgress
  \/ ImagesUpdateImageProgress
  \/ ImagesUpdateImage
  \/ ImagesRetrying

SpecImages == Init /\ [][NextImages]_vars

(* ------------------- the snapshot's round trip ------------------------ *)

\* One round trip in a behaviour: the state is built, saved once, and a store
\* is initialised from the snapshot.
NotSavedYet == storage = << >>

TripSetTopic == NotSavedYet /\ setTopic("T")
TripSetOutline == NotSavedYet /\ setOutline("raw", GeneratedPages(MaxImages, "A"))
TripStart == NotSavedYet /\ startGeneration
TripProgress ==
  /\ NotSavedYet
  /\ \/ updateProgress(0, "done", "u", Undefined)
     \/ updateProgress(1, "error", Undefined, "e")
TripFinish == NotSavedYet /\ finishGeneration("task")
TripSetRecordId == \E id \in RecordIds : NotSavedYet /\ setRecordId(id, MaxTime)
TripContentError == NotSavedYet /\ setContentError("e")
TripAttach == NotSavedYet /\ store.userImages = << >> /\ attachUserImages(<< "file" >>)
TripSave == NotSavedYet /\ saveToStorage
TripCreate == lastCall.op = "saveToStorage" /\ createStore

NextTrip ==
  \/ TripSetTopic
  \/ TripSetOutline
  \/ TripStart
  \/ TripProgress
  \/ TripFinish
  \/ TripSetRecordId
  \/ TripContentError
  \/ TripAttach
  \/ TripSave
  \/ TripCreate

SpecTrip == Init /\ [][NextTrip]_vars

(* --------------- the generated content and its remote save ------------ *)

\* The record is created once, before or after content is generated.
ContentSetRecordId == \E id \in RecordIds : store.recordId = Null /\ setRecordId(id, MaxTime)
ContentStart == startContentGeneration
ContentSet == \E t \in {<< >>, << "title" >>} : setContent(t, "copy", << "tag" >>)
ContentSave == saveContentToHistory
ContentResponse == saveContentResponse
ContentFailed == setContentError("e")
ContentClear == clearContent

NextContent ==
  \/ ContentSetRecordId
  \/ ContentStart
  \/ ContentSet
  \/ ContentSave
  \/ ContentResponse
  \/ ContentFailed
  \/ ContentClear

SpecContent == Init /\ [][NextContent]_vars

(* ------------- the content save across a restart of the workflow ------- *)

\* The user starts over while a record exists.
ContentReset == store.recordId # Null /\ reset

NextRestart ==
  \/ ContentSetRecordId
  \/ ContentStart
  \/ ContentSet
  \/ ContentSave
  \/ ContentResponse
  \/ ContentFailed
  \/ ContentClear
  \/ ContentReset

SpecRestart == Init /\ [][NextRestart]_vars

(* ------------------------------ claims -------------------------------- *)

Pages == store.outline.pages

\* C1: after every step of any sequence of addPage, insertPage, deletePage and
\* movePage calls, with any integer arguments, the page at position i has
\* index i (0-based, contiguous, no duplicates).
C1_IndexIsPosition == \A k \in 1..Len(Pages) : Pages[k].index = k - 1

\* C1 witness: a movePage has run on an outline of several pages.
C1_Witness == lastCall.op = "movePage" /\ ~lastCall.threw /\ Len(Pages) >= 2

Images == store.images
Progress == store.progress

\* The image with index i exists and has status "done".
IsDone(i) == FindIndex(Images, i) # 0 /\ Images[FindIndex(Images, i)].status = "done"

\* C3: two updateProgress(i, 'done', ...) calls for the same image raise
\* progress.current by exactly 1 in total: the call that finds image i not yet
\* done raises it by 1, the call that finds it already done leaves it alone.
C3_DoneCountedOnce ==
  [][\A i \in ImageArgs :
       (FindIndex(Images, i) # 0 /\ updateProgress(i, "done", "u", Undefined))
         => Progress'.current = Progress.current + (IF IsDone(i) THEN 0 ELSE 1)]_vars

\* C9: immediately after startGeneration() the stage is generating, progress is
\* {0, number of pages, generating} and images holds one entry per page, with
\* the page's index, an empty url and status generating.
C9_StartGeneration ==
  lastCall.op = "startGeneration" =>
    /\ store.stage = "generating"
    /\ Progress = [current |-> 0, total |-> Len(Pages), status |-> "generating"]
    /\ Len(Images) = Len(Pages)
    /\ \A k \in 1..Len(Pages) :
         /\ Images[k].index = Pages[k].index
         /\ Images[k].url = ""
         /\ Images[k].status = "generating"

\* C9 witness: startGeneration() has run for a second time, on two pages, after
\* an earlier run was finished (its task id is still recorded).
C9_Witness ==
  /\ lastCall.op = "startGeneration"
  /\ Len(Images) = 2
  /\ store.taskId = "task"

\* C10: within a generation run (after a startGeneration(), in steps other than
\* startGeneration() and reset()), progress.total never changes,
\* progress.current never decreases, and progress.current increases only in a
\* step in which some image goes from a status other than done to done.
C10_CurrentFollowsDone ==
  [][(Progress.status # "idle" /\ lastCall'.op \notin {"startGeneration", "reset"}) =>
       /\ Progress'.total = Progress.total
       /\ Progress'.current >= Progress.current
       /\ Progress'.current > Progress.current =>
            \E k \in 1..Len(Images) :
              /\ Images[k].status # "done"
              /\ Images'[k].status = "done"]_vars

\* C6: once reset() has returned and every reaction it triggers has run
\* (the setupAutoSave watcher included), the local snapshot slot is absent.
C6_NoSnapshotAfterReset == (lastCall.op = "reset" /\ Idle /\ slot = "ok") => storage = << >>

\* C7: reset() yields exactly the zero state, from any state.
C7_ResetIsZero ==
  lastCall.op = "reset" =>
    /\ store.stage = "input"
    /\ store.topic = ""
    /\ store.outline = [raw |-> "", pages |-> << >>]
    /\ store.progress = [current |-> 0, total |-> 0, status |-> "idle"]
    /\ store.images = << >>
    /\ store.taskId = Null
    /\ store.recordId = Null
    /\ store.userImages = << >>
    /\ store.content.titles = << >>
    /\ store.content.copywriting = ""
    /\ store.content.tags = << >>
    /\ store.content.status = "idle"
    /\ store.content.error = Undefined
    /\ store.outlineStatus = "idle"
    /\ store.lastSavedAt = Null

\* C7 witness: reset() has run on a state that was not the zero state.
C7_Witness == lastCall.op = "reset" /\ lastCall.changed

\* C4: the debounced autosave runs at most once per debounce window. At most
\* one timer is pending and it is the one saveTimer names (debouncedSave has
\* cancelled the earlier ones); and in the mounted view, once debouncedSave has
\* run, either its timer is still pending and autoSaveOutline has not run since
\* the last edit, or no timer is pending and autoSaveOutline has run exactly once.
C4_OneSavePerWindow ==
  /\ timers = IF saveTimer = 0 THEN {} ELSE {saveTimer}
  /\ runsSinceEdit <= 1
  /\ (mounted /\ debounced) =>
       \/ saveTimer # 0 /\ runsSinceEdit = 0
       \/ saveTimer = 0 /\ runsSinceEdit = 1

\* C4 witness: several edits arrived within one window (a pending timer was
\* replaced), then the last timer fired and autoSaveOutline ran once.
C4_Witness ==
  /\ lastCall.op = "timerFires"
  /\ superseded
  /\ runsSinceEdit = 1
  /\ isSaving

\* C5: whenever the view is left while a debounce timer is pending (and there is
\* a record with pages to save), the pending save has been executed before the
\* view is left: no edit made in the view remains unsent.
C5_NoEditLost ==
  [][(mounted /\ ~mounted' /\ saveTimer # 0 /\ ~autoSaveSkips(store)) => ~unsent']_vars

\* The generateContent calls in flight.
GenerateContentInFlight == { k \in 1..Len(requests) : requests[k].api = "generateContent" }

\* C8: content regeneration is mutually exclusive with itself. contentLoading
\* is set exactly while one generateContent call is in flight, never more than
\* one is; and a regenerateContent call made while one is in flight issues no
\* request and changes nothing of the modal.
C8_OneRegeneration ==
  /\ [](Cardinality(GenerateContentInFlight) <= 1)
  /\ [](contentLoading <=> Cardinality(GenerateContentInFlight) = 1)
  /\ [][(contentLoading /\ regenerateContent) => UNCHANGED << requests, modalVars, store >>]_vars

\* C8 witness: regenerateContent was called for a record while a regeneration
\* was in flight, and returned without issuing anything.
C8_Witness ==
  /\ lastCall.op = "regenerateContent"
  /\ lastCall.found
  /\ ~lastCall.changed
  /\ contentLoading
  /\ Cardinality(GenerateContentInFlight) = 1

\* The workflow stages in their forward order.
StageRank(stage) ==
  CASE stage = "input" -> 0
    [] stage = "outline" -> 1
    [] stage = "generating" -> 2
    [] stage = "result" -> 3

\* C11: the stage only moves forward along input, outline, generating, result:
\* a step that moves it to an earlier stage is a reset().
C11_StageForward ==
  [][StageRank(store'.stage) < StageRank(store.stage) => lastCall'.op = "reset"]_vars

\* The createHistory calls in flight.
CreateHistoryInFlight == { k \in 1..Len(requests) : requests[k].api = "createHistory" }

\* C12: when an outline edit settles (its debounce timer fires) while recordId
\* is unset and the outline has pages, the autosave sees to it that the record
\* is created first: after the step a createHistory call is in flight.
C12_CreateBeforeUpdate ==
  [][((\E t \in timers : timerFires(t)) /\ store.recordId = Null /\ Len(Pages) > 0)
       => CreateHistoryInFlight' # {}]_vars

\* A page without its number.
PageBody(page) == [content |-> page.content, type |-> page.type]

\* The position before a move from from to to (0-based) of the page that
\* stands at 1-based position j after it, for j other than the moved page's.
PositionBeforeMove(j, from, to) ==
  LET r == IF j > to + 1 THEN j - 1 ELSE j
  IN IF r >= from + 1 THEN r + 1 ELSE r

\* C13: for valid positions from and to, movePage(from, to) puts the moved page
\* at position to, keeps the other pages in their relative order, and changes
\* no page's type or content.
C13_MovePage ==
  [][\A from \in 0..(Len(Pages) - 1), to \in 0..(Len(Pages) - 1) :
       (lastCall'.op = "movePage" /\ movePage(from, to)) =>
         /\ Len(Pages') = Len(Pages)
         /\ PageBody(Pages'[to + 1]) = PageBody(Pages[from + 1])
         /\ \A j \in 1..Len(Pages) :
              j # to + 1 => PageBody(Pages'[j]) = PageBody(Pages[PositionBeforeMove(j, from, to)])]_vars

\* C13 witness: a move has rearranged three pages that differ pairwise.
C13_Witness ==
  /\ lastCall.op = "movePage"
  /\ lastCall.changed
  /\ ~lastCall.threw
  /\ Len(Pages) = 3
  /\ \A j \in 1..3 : \A k \in 1..3 : j # k => PageBody(Pages[j]) # PageBody(Pages[k])

\* C14: deletePage(k) on an outline with a page of index k removes exactly that
\* page: one page fewer, the pages before it and after it keep their order,
\* type and content, and the remaining pages are numbered 0..n-2.
C14_DeletePage ==
  [][\A k \in IndexArgs :
       (lastCall'.op = "deletePage" /\ FindIndex(Pages, k) # 0 /\ deletePage(k)) =>
         LET at == FindIndex(Pages, k)
         IN /\ Len(Pages') = Len(Pages) - 1
            /\ \A j \in 1..Len(Pages') :
                 /\ PageBody(Pages'[j]) = PageBody(Pages[IF j < at THEN j ELSE j + 1])
                 /\ Pages'[j].index = j - 1]_vars

\* C14 witness: a page that was there has been deleted, and two pages that
\* differ are left.
C14_Witness ==
  /\ lastCall.op = "deletePage"
  /\ lastCall.found
  /\ Len(Pages) = 2
  /\ PageBody(Pages[1]) # PageBody(Pages[2])

\* C15: updatePage and deletePage with an index that matches no page leave the
\* outline (pages and raw) unchanged and throw nothing; updatePage with a
\* matching index changes only that page's content.
C15_NoMatchNoChange ==
  [][\A i \in IndexArgs :
       /\ (FindIndex(Pages, i) = 0 /\ \E c \in Contents : updatePage(i, c))
            => (store'.outline = store.outline /\ ~lastCall'.threw)
       /\ (FindIndex(Pages, i) = 0 /\ deletePage(i))
            => (store'.outline = store.outline /\ ~lastCall'.threw)
       /\ \A c \in Contents :
            (FindIndex(Pages, i) # 0 /\ updatePage(i, c))
              => Pages' = [Pages EXCEPT ![FindIndex(Pages, i)].content = c]]_vars

\* The positions of the pages whose index is the index of an image with status error.
FailedPositions ==
  { k \in 1..Len(Pages) :
      \E i \in 1..Len(Images) : Images[i].status = "error" /\ Images[i].index = Pages[k].index }

\* The j-th smallest element of a set of positions.
NthPosition(set, j) == CHOOSE k \in set : Cardinality({h \in set : h < k}) = j - 1

\* getFailedPages() returns exactly the pages at the failed positions, in page order.
FailedPagesExact ==
  /\ Len(getFailedPages(store)) = Cardinality(FailedPositions)
  /\ \A j \in 1..Cardinality(FailedPositions) :
       getFailedPages(store)[j] = Pages[NthPosition(FailedPositions, j)]

\* getFailedImages() and hasFailedImages() say whether an image has status error.
FailedImagesAgree ==
  /\ hasFailedImages(store) <=> (\E i \in 1..Len(Images) : Images[i].status = "error")
  /\ hasFailedImages(store) <=> getFailedImages(store) # << >>

\* The getters assign nothing.
GettersPure ==
  [][lastCall'.op \in {"getFailedImages", "getFailedPages", "hasFailedImages"}
       => store' = store]_vars

\* C16 as stated: getFailedPages() returns exactly the pages of the error
\* images in page order and modifies nothing, and getFailedImages() and
\* hasFailedImages() agree with it on whether any image has status error.
C16_FailedAllAgree ==
  /\ []FailedPagesExact
  /\ []FailedImagesAgree
  /\ [](hasFailedImages(store) <=> getFailedPages(store) # << >>)
  /\ GettersPure

\* C16 amended: getFailedPages() returns exactly the pages of the error images
\* in page order and modifies nothing; getFailedImages() and hasFailedImages()
\* agree with each other on whether any image has status error; getFailedPages()
\* agrees with them as long as every error image's index is the index of a page.
C16_FailedPages ==
  /\ []FailedPagesExact
  /\ []FailedImagesAgree
  /\ []((\A i \in 1..Len(Images) :
           Images[i].status = "error" => FindIndex(Pages, Images[i].index) # 0)
         => (hasFailedImages(store) <=> getFailedPages(store) # << >>))
  /\ GettersPure

\* C16 witness: getFailedPages() was called and returned some of the pages,
\* not all of them.
C16_Witness ==
  /\ lastCall.op = "getFailedPages"
  /\ lastCall.found
  /\ Len(getFailedPages(store)) < Len(Pages)

\* The documented default state.
IsDefaultState(s) ==
  /\ s.stage = "input"
  /\ s.topic = ""
  /\ s.outline = [raw |-> "", pages |-> << >>]
  /\ s.progress = [current |-> 0, total |-> 0, status |-> "idle"]
  /\ s.images = << >>
  /\ s.taskId = Null
  /\ s.recordId = Null
  /\ s.lastSavedAt = Null
  /\ s.content.status = "idle"
  /\ s.content.titles = << >>
  /\ s.content.copywriting = ""
  /\ s.content.tags = << >>
  /\ s.outlineStatus = "idle"

\* C17: when the snapshot slot is absent, unreadable (getItem throws) or holds
\* text that is not JSON, creating the store throws nothing and yields the
\* documented default state.
C17_DefaultsWithoutSnapshot ==
  [][(createStore /\ (slot # "ok" \/ storage = << >>))
       => (IsDefaultState(store') /\ ~lastCall'.threw)]_vars

\* C17 witness: the store was created over a slot that is not JSON, after a
\* page whose state was not the default one.
C17_Witness ==
  /\ lastCall.op = "createStore"
  /\ lastCall.changed
  /\ slot = "corrupt"
  /\ IsDefaultState(store)

\* C18: what localStorage's getItem, setItem or removeItem throws never leaves
\* the core: creating the store, saveToStorage() and reset() throw nothing.
C18_StorageNeverThrows ==
  lastCall.op \in {"reset", "saveToStorage", "createStore"} => ~lastCall.threw

\* A text field holds a value: it is neither null nor the empty text.
IsSet(value) == value \notin {Null, Undefined, ""}

\* What C19 says hasUnsavedChanges() returns in state s.
UnsavedByTheSpec(s) ==
  \/ /\ ~IsSet(s.recordId)
     /\ (s.topic # "" \/ s.outline.pages # << >> \/ s.images # << >>)
  \/ /\ IsSet(s.recordId)
     /\ ~IsSet(s.lastSavedAt)

\* C19: hasUnsavedChanges() returns true exactly when recordId is unset and
\* one of topic, outline pages and images is non-empty, or recordId is set
\* and lastSavedAt is unset; in every other state it returns false; and it
\* never modifies the state.
C19_HasUnsavedChanges ==
  [][UnsavedGet => /\ lastCall'.found <=> UnsavedByTheSpec(store)
                   /\ store' = store
                   /\ storage' = storage]_vars

\* hasUnsavedChanges() returned true for a record that has an id and no
\* time of a save.
C19_Witness ==
  /\ lastCall.op = "hasUnsavedChanges"
  /\ lastCall.found
  /\ store.recordId = "r1"
  /\ store.lastSavedAt = Null

\* The request of the regeneration in flight is for the record the modal shows.
RegeneratingShown ==
  /\ record # << >>
  /\ \E k \in 1..Len(requests) :
       requests[k].api = "generateContent" /\ requests[k].recordId = record[1].id

\* The record's content is exactly the answer r, with status done and no error.
ContentIs(rec, r) ==
  rec.content = << [status |-> "done", titles |-> r.titles, copywriting |-> r.copywriting,
                    tags |-> r.tags, error |-> Undefined] >>

\* C20: when a content regeneration request succeeds, the record's titles,
\* copywriting and tags are replaced wholesale by the response's values, its
\* content status becomes done and its content error is cleared, whether or
\* not the record had a content object before the request.
C20_SuccessReplacesContent ==
  [][\A r \in ContentResults, e \in {Undefined, "E"} :
       (/\ RegeneratingShown
        /\ r.copywriting # ""
        /\ generateContentSettled(TRUE, r.titles, r.copywriting, r.tags, e))
       => ContentIs(record'[1], r)]_vars

\* C21: when a content regeneration request fails, the record's content
\* status becomes error and a non-empty message is recorded (the failure's
\* own, or a generic one); the titles, copywriting and tags generated before
\* are unchanged, and nothing is thrown to the caller.
C21_FailureSetsError ==
  [][\A r \in ContentResults, e \in {Undefined, "E"} :
       (/\ RegeneratingShown
        /\ record[1].content # << >>
        /\ generateContentSettled(FALSE, r.titles, r.copywriting, r.tags, e))
       => /\ record'[1].content[1].status = "error"
          /\ Truthy(record'[1].content[1].error)
          /\ contentError' = (IF e = Undefined THEN DefaultError ELSE e)
          /\ record'[1].content[1].titles = record[1].content[1].titles
          /\ record'[1].content[1].copywriting = record[1].content[1].copywriting
          /\ record'[1].content[1].tags = record[1].content[1].tags]_vars

\* C22: after setContent() the content status is done, and the outcome of the
\* save it starts (success, a failed response or an exception of
\* updateHistory) changes neither content.status nor content.error nor the
\* titles, copywriting and tags, and is not raised to the caller.
C22_SaveOutcomeKeepsContent ==
  /\ [][ContentSet => /\ store'.content.status = "done"
                      /\ ~lastCall'.threw]_vars
  /\ [][ContentResponse => /\ store'.content = store.content
                           /\ store' = store
                           /\ lastCall' = lastCall]_vars

\* The save started by setContent() was answered while the content was still
\* the one setContent() wrote.
C22_Witness ==
  /\ lastCall.op = "setContent"
  /\ store.recordId # Null
  /\ store.content.status = "done"
  /\ store.content.titles = << "title" >>
  /\ importing = 0
  /\ requests = << >>

\* A save of the outline view's autosave awaits its answer.
AutoSaveInFlight ==
  \E k \in 1..Len(requests) : requests[k].by = "autoSaveOutline" /\ requests[k].inst = instance

\* C23: every autosave run that sets isSaving to true eventually sets it
\* back to false, whether the update call succeeds, returns a non-success
\* response or throws; the failure is never raised to the caller.
C23_IsSavingReturns ==
  /\ isSaving ~> ~isSaving
  /\ [][SavesSaved => (~AutoSaveInFlight' => ~isSaving') /\ lastCall' = lastCall]_vars
  /\ [](lastCall.op \in {"timerFires", "OutlineView_startGeneration"} => ~lastCall.threw)

\* A timer-fired run sent the outline, was answered, and isSaving is false.
C23_Witness ==
  /\ lastCall.op = "timerFires"
  /\ mounted
  /\ ~autoSaveSkips(store)
  /\ requests = << >>
  /\ ~isSaving

\* The number of autosave calls of updateHistory that await their answer.
AutoSavesInFlight ==
  Cardinality({k \in 1..Len(requests) : requests[k].by = "autoSaveOutline"})

\* C30: at most one outline autosave request is in flight at any time: no
\* autosave updateHistory call (timer-fired or force-flushed) is issued while
\* an earlier one has not completed.
C30_OneAutoSaveInFlight == AutoSavesInFlight <= 1

\* The updates of one image: the calls of updateProgress, updateImageProgress,
\* updateImage and setImageRetrying with index i.
ImageUpdates(i) ==
  { [status |-> st, error |-> a.error, op |-> "updateProgress", index |-> i, url |-> a.url] :
      st \in {"error", "done", "generating"},
      a \in {[error |-> Undefined, url |-> Undefined], [error |-> "e", url |-> "u"]} }
  \cup { [status |-> "", error |-> Undefined, op |-> op, index |-> i, url |-> "v"] :
           op \in {"updateImageProgress", "updateImage", "setImageRetrying"} }

\* The state after the update u in state s.
ApplyUpdate(s, u) ==
  CASE u.op = "updateProgress" -> updateProgressState(s, u.index, u.status, u.url, u.error)
    [] u.op = "updateImageProgress" -> updateImageProgressState(s, u.index, 50)
    [] u.op = "updateImage" -> updateImageState(s, u.index, u.url, MaxTime)
    [] u.op = "setImageRetrying" -> setImageRetryingState(s, u.index)

\* The images of s whose index is not i are the same in t, at the same places.
OthersUnchanged(s, t, i) ==
  /\ Len(t.images) = Len(s.images)
  /\ \A k \in 1..Len(s.images) : s.images[k].index # i => t.images[k] = s.images[k]

\* C24: for image indices i # j, an update of i leaves the image with index j
\* unchanged, and an update of i and an update of j give the same images list
\* in either order, also when the images list is not in page order.
C24_UpdatesCommute ==
  \A i \in ImageArgs, j \in ImageArgs :
    i # j =>
      \A u \in ImageUpdates(i) :
        /\ OthersUnchanged(store, ApplyUpdate(store, u), i)
        /\ \A v \in ImageUpdates(j) :
             ApplyUpdate(ApplyUpdate(store, u), v).images
               = ApplyUpdate(ApplyUpdate(store, v), u).images

\* Both images were updated, and the images list is not in page order.
C24_Witness ==
  /\ Len(store.images) = 2
  /\ store.images[1].index = 1
  /\ store.images[1].status = "error"
  /\ store.images[2].status = "done"
  /\ store.images[2].progress = << 50 >>

\* C25: updateImage(index, newUrl) on an existing image sets its status to
\* done, its url to newUrl with a cache-busting query parameter and removes
\* its error; after it progress.current counts the image exactly once: it is
\* raised by one if the image was not done before, and not raised otherwise.
C25_UpdateImageCounts ==
  [][\A i \in ImageArgs :
       (FindIndex(Images, i) # 0 /\ updateImage(i, "u", MaxTime))
         => /\ Images'[FindIndex(Images, i)].status = "done"
            /\ Images'[FindIndex(Images, i)].url = "u?t=" \o ToString(MaxTime)
            /\ Images'[FindIndex(Images, i)].error = Undefined
            /\ Progress'.current = Progress.current + (IF IsDone(i) THEN 0 ELSE 1)]_vars

\* C26: recordId changes only through setRecordId() and reset(), every
\* setRecordId(id) with a non-null id also sets lastSavedAt, and so in every
\* state reachable from the default state through store actions a set
\* recordId implies a set lastSavedAt.
C26_RecordIdImpliesSavedAt ==
  /\ [](IsSet(store.recordId) => IsSet(store.lastSavedAt))
  /\ [][store'.recordId # store.recordId => lastCall'.op \in {"reset", "setRecordId"}]_vars
  /\ [][\A id \in RecordIds, t \in Times :
          setRecordId(id, t) => store'.lastSavedAt = ISOString(t)]_vars

\* setRecordId() gave the state a record id and a time of saving.
C26_Witness ==
  /\ lastCall.op = "setRecordId"
  /\ store.recordId = "r1"
  /\ store.lastSavedAt = ISOString(MaxTime)

\* C27: setOutline(raw, pages) leaves outline equal to the given raw and
\* pages, stage equal to outline and outlineStatus equal to done, and changes
\* nothing else; called again with an equal outline it leaves the whole state
\* unchanged.
C27_SetOutlineIdempotent ==
  [][\A n \in 0..MaxPages, c \in Contents :
       \A raw \in RawInputs(GeneratedPages(n, c)) :
         (/\ lastCall'.op = "setOutline"
          /\ store'.outline.raw = raw
          /\ Len(store'.outline.pages) = n
          /\ setOutline(raw, GeneratedPages(n, c)))
         => /\ store' = [store EXCEPT !.outline = [raw |-> raw, pages |-> GeneratedPages(n, c)],
                                      !.stage = "outline",
                                      !.outlineStatus = "done"]
            /\ (/\ lastCall.op = "setOutline"
                /\ store.outline = [raw |-> raw, pages |-> GeneratedPages(n, c)])
               => store' = store]_vars

\* setOutline() was called again with the outline it had set, and changed nothing.
C27_Witness ==
  /\ lastCall.op = "setOutline"
  /\ ~lastCall.changed
  /\ Len(store.outline.pages) = MaxPages
  /\ store.outline.raw = "raw"

C29_PayloadRawIsJoined ==
  \A k \in 1..Len(requests) :
    (requests[k].api = "updateHistory" /\ requests[k].outline # << >>)
      => requests[k].outline[1].raw = JoinContents(requests[k].outline[1].pages)

\* The transitions of an image's status the spec allows.
AllowedStatusChange(from, to) ==
  \/ from = "generating" /\ to \in {"error", "done"}
  \/ from = "error" /\ to = "retrying"
  \/ from = "retrying" /\ to \in {"error", "done", "generating"}

\* C31: each image's status changes only along generating -> done,
\* generating -> error, error -> retrying, and retrying -> generating, done or
\* error: no store action moves an image to retrying from a status other than
\* error, or out of done.
C31_StatusTransitions ==
  [][lastCall'.op \in {"updateProgress", "updateImage", "setImageRetrying"}
       => /\ Len(Images') = Len(Images)
          /\ \A k \in 1..Len(Images) :
               \/ Images'[k].status = Images[k].status
               \/ AllowedStatusChange(Images[k].status, Images'[k].status)]_vars

\* C32: while recordId is unset neither the outline autosave nor
\* saveContentToHistory issues an updateHistory request, changes the state
\* or raises an error: every updateHistory call carries a non-null record id.
C32_UpdateCarriesRecordId ==
  \A k \in 1..Len(requests) :
    requests[k].api = "updateHistory" => requests[k].recordId # Null

\* C33: in every reachable state progress.current <= progress.total, for any
\* sequence of startGeneration, updateProgress, updateImage, setImageRetrying
\* and finishGeneration calls.
C33_CurrentAtMostTotal == Progress.current <= Progress.total

\* C34: the result of a content regeneration request is applied only to the
\* record the request was issued for: when the modal shows another record by
\* the time generateContent settles, the response does not modify that
\* record's content.
C34_ResultForItsRecord ==
  [][(record # << >> /\ ~RegeneratingShown /\ ModalSettled) => record' = record]_vars

\* The createHistory calls in flight.
CreatesInFlight ==
  Cardinality({k \in 1..Len(requests) : requests[k].api = "createHistory"})

\* C35: at most one remote history record is created per workflow:
\* createHistory is issued only when recordId is unset and the outline has
\* pages, and never while another createHistory call of the same workflow is
\* still in flight (for example when the outline view is mounted again before
\* the first call returns).
C35_OneCreateInFlight == CreatesInFlight <= 1

====
